---- MODULE Spec2Model ----
(***************************************************************************)
(* The WebHID backend of async-hid (src/backend/webhid/mod.rs) on one      *)
(* physical device: the JavaScript HidDevice object, the open()/           *)
(* open_readonly() calls with their suspension points, the reference       *)
(* counted BackendDevice, the unbounded input channel fed by the           *)
(* oninputreport closure, and the report I/O of reader and writer.         *)
(*                                                                         *)
(* The k-th open call of a run creates channel k and, when it succeeds,    *)
(* BackendDevice k, reader k and (for open()) writer k.                    *)
(*                                                                         *)
(* Enumeration (enumerate, enumerate_with_criteria, get_device_info), the  *)
(* stream of src/backend/webhid/utils.rs, the equality and hash of         *)
(* DeviceInfo (src/lib.rs) and the stubs of src/backend/android/mod.rs     *)
(* are modelled beside it.                                                 *)
(***************************************************************************)
EXTENDS Integers, Sequences, FiniteSets, TLC

\* ----------------------------------------------------------------- bounds
MaxOpens == 2
MaxRaceOpens == 3
MaxEvents == 2
MaxWrites == 1
MaxBufLen == 4
MaxEnums == 1
MaxChosen == 2
MaxYield == 6

\* Open calls are numbered; MaxOpens of them are made where their number is
\* not what is examined, MaxRaceOpens where three calls must interleave.
Ids == 1..MaxRaceOpens

\* ------------------------------------------------------ reports and buffers
\* A HidInputReportEvent: report_id() and data(), a DataView given by its
\* underlying ArrayBuffer, byteOffset and byteLength.
MkEvent(id, buffer, off) ==
    [id |-> id, buffer |-> buffer, off |-> off, len |-> Len(buffer) - off]

\* The browser builds the DataView of an input report at offset 0 of a fresh
\* ArrayBuffer.
ViewOffsets == {0}

Reports ==
    { MkEvent(r[1], r[2], off) :
        r \in { <<3, <<>>>>, <<7, <<9, 8>>>>, <<5, <<1, 2, 4>>>> },
        off \in ViewOffsets }

NoEvent == [id |-> 0, buffer |-> <<>>, off |-> 0, len |-> 0]

\* The bytes the DataView shows: the payload of the report.
Payload(e) == SubSeq(e.buffer, e.off + 1, e.off + e.len)

\* A caller's buffer of n bytes, each position holding a byte of its own that
\* no report carries.
Buf(n) == [k \in 1..n |-> 100 + k]

\* Destination buffers passed to read_input_report while the device is opened,
\* superseded and dropped: the empty one and one of three bytes.
LifeBufs == { Buf(0), Buf(3) }

\* Buffers passed to read_input_report and write_output_report on one open
\* handle: every length up to MaxBufLen.
IoBufs == { Buf(n) : n \in 0..MaxBufLen }

VARIABLES
    opened,          \* HidDevice.opened()
    inProgress,      \* the device has an open() in flight
    oninputreport,   \* channel whose closure is the oninputreport handler, 0 = None
    nextId,          \* the next open call's number
    pc,              \* position of each open call
    kind,            \* "open" or "open_readonly"
    strong,          \* strong count of Arc<BackendDevice> k
    readerAlive,     \* DeviceReader k exists
    writerAlive,     \* DeviceWriter k exists
    chan,            \* channel k: "none", "live" (rx exists), "rxgone"
    queue,           \* events in channel k
    rdPc,            \* reader k: "idle" or "waiting" (suspended in recv)
    rdBuf,           \* destination buffer of the suspended read
    closesSinceOpen, \* native close calls since the last native open call
    teardownCloses,  \* native close calls issued by the drop of BackendDevice k
    dropEnd,         \* how the drop of BackendDevice k ended
    nProduced,       \* number of input events the device produced
    seen,            \* events produced while closure k was the handler
    returned,        \* frames the successful reads of reader k returned
    overflowed,      \* a read of reader k failed with a buffer overflow
    last,            \* the last completed read_input_report call
    sendLog,         \* platform sendReport calls
    lastWrite,       \* the last write_output_report call
    backend,         \* the backend compiled in: "webhid" or "android"
    granted,         \* devices the user has granted to the page
    nEnums,          \* number of enumeration calls made
    enPc,            \* position of the enumeration call
    enKind,          \* "enumerate" or "criteria"
    enCriteria,      \* the criteria list of the call
    enReported,      \* devices the platform reported to the call
    enFound,         \* found_devices between enumerate()'s two awaits
    enItems,         \* the sequence handed to utils::iter
    stream,          \* what the stream's iterator still holds
    yielded,         \* the items the stream has yielded
    lastPoll,        \* result of the last poll_next
    lastOp           \* the last call of a public operation that ended

vars == << opened, inProgress, oninputreport, nextId, pc, kind, strong,
           readerAlive, writerAlive, chan, queue, rdPc, rdBuf,
           closesSinceOpen, teardownCloses, dropEnd, nProduced, seen, returned,
           overflowed, last, sendLog, lastWrite, backend, granted, nEnums,
           enPc, enKind, enCriteria, enReported, enFound, enItems, stream,
           yielded, lastPoll, lastOp >>

devVars == << opened, inProgress, oninputreport >>
callVars == << nextId, pc, kind >>
handleVars == << strong, readerAlive, writerAlive >>
readVars == << rdPc, rdBuf, returned, overflowed, last >>
writeVars == << sendLog, lastWrite >>
enumVars == << backend, granted, nEnums, enPc, enKind, enCriteria, enReported,
              enFound, enItems, stream, yielded, lastPoll, lastOp >>
deviceVars == << opened, inProgress, oninputreport, nextId, pc, kind, strong,
                readerAlive, writerAlive, chan, queue, rdPc, rdBuf,
                closesSinceOpen, teardownCloses, dropEnd, nProduced, seen, returned,
                overflowed, last, sendLog, lastWrite >>

NoRead == [reader |-> 0, pre |-> <<>>, post |-> <<>>, ev |-> NoEvent,
           tag |-> "none", n |-> 0]
NoWrite == [writer |-> 0, buf |-> <<>>, tag |-> "none"]
NoOp == [op |-> "none", outcome |-> "none"]

\* No enumeration call has been made; nothing is granted and the WebHID
\* backend is the one compiled in.
EnumAtRest ==
    /\ nEnums = 0
    /\ enPc = "idle"
    /\ enKind = "enumerate"
    /\ enCriteria = <<>>
    /\ enReported = <<>>
    /\ enFound = <<>>
    /\ enItems = <<>>
    /\ stream = <<>>
    /\ yielded = <<>>
    /\ lastPoll = "none"
    /\ lastOp = NoOp

EnumIdle ==
    /\ backend = "webhid"
    /\ granted = {}
    /\ EnumAtRest

DeviceInit ==
    /\ opened = FALSE
    /\ inProgress = FALSE
    /\ oninputreport = 0
    /\ nextId = 1
    /\ pc = [i \in Ids |-> "unused"]
    /\ kind = [i \in Ids |-> "open"]
    /\ strong = [i \in Ids |-> 0]
    /\ readerAlive = [i \in Ids |-> FALSE]
    /\ writerAlive = [i \in Ids |-> FALSE]
    /\ chan = [i \in Ids |-> "none"]
    /\ queue = [i \in Ids |-> <<>>]
    /\ rdPc = [i \in Ids |-> "idle"]
    /\ rdBuf = [i \in Ids |-> <<>>]
    /\ closesSinceOpen = 0
    /\ teardownCloses = [i \in Ids |-> 0]
    /\ dropEnd = [i \in Ids |-> "none"]
    /\ nProduced = 0
    /\ seen = [i \in Ids |-> <<>>]
    /\ returned = [i \in Ids |-> <<>>]
    /\ overflowed = [i \in Ids |-> FALSE]
    /\ last = NoRead
    /\ sendLog = <<>>
    /\ lastWrite = NoWrite

Init ==
    /\ DeviceInit
    /\ EnumIdle

\* ------------------------------------------------------------ the platform
\* HidDevice.close(): rejected while an open() is in flight, otherwise the
\* connection is dropped and the promise resolves.
CloseAccepted == ~inProgress

\* HidDevice.open(): rejected when the device is open or an open() is in
\* flight, otherwise the open is started.
OpenAccepted == ~opened /\ ~inProgress

\* ------------------------------------------------------- open / open_readonly
\* setup_read_closure: a new unbounded channel whose sender is moved into a
\* closure that replaces the device's oninputreport handler.
SetupReadClosure(i) ==
    /\ chan' = [chan EXCEPT ![i] = "live"]
    /\ oninputreport' = i

\* hid_device.open() is called and the call suspends on its promise.
NativeOpenCall(i) ==
    /\ closesSinceOpen' = 0
    /\ IF OpenAccepted
         THEN /\ inProgress' = TRUE
              /\ pc' = [pc EXCEPT ![i] = "opening"]
         ELSE /\ inProgress' = inProgress
              /\ pc' = [pc EXCEPT ![i] = "openRejected"]

\* The call up to its first suspension point: the pre-close when the device
\* is found open, else the closure setup and the native open.
OpenStart(k, cap) ==
    /\ nextId <= cap
    /\ nextId' = nextId + 1
    /\ kind' = [kind EXCEPT ![nextId] = k]
    /\ IF opened
         THEN /\ closesSinceOpen' = closesSinceOpen + 1
              /\ IF CloseAccepted
                   THEN /\ opened' = FALSE
                        /\ pc' = [pc EXCEPT ![nextId] = "closing"]
                   ELSE /\ opened' = opened
                        /\ pc' = [pc EXCEPT ![nextId] = "closeRejected"]
              /\ UNCHANGED << inProgress, oninputreport, chan >>
         ELSE /\ SetupReadClosure(nextId)
              /\ NativeOpenCall(nextId)
              /\ opened' = opened
    /\ UNCHANGED << handleVars, queue, readVars, writeVars, teardownCloses, dropEnd,
                    nProduced, seen >>
    /\ UNCHANGED enumVars

\* The pre-close promise has settled: the error is returned, or the closure is
\* set up and the native open is called.
CloseResume(i) ==
    /\ pc[i] \in {"closing", "closeRejected"}
    /\ IF pc[i] = "closing"
         THEN /\ SetupReadClosure(i)
              /\ NativeOpenCall(i)
         ELSE /\ pc' = [pc EXCEPT ![i] = "failed"]
              /\ UNCHANGED << inProgress, oninputreport, chan, closesSinceOpen >>
    /\ UNCHANGED << opened, nextId, kind, handleVars, queue, readVars,
                    writeVars, teardownCloses, dropEnd, nProduced, seen >>
    /\ UNCHANGED enumVars

\* Number of references open() and open_readonly() hand out to the new
\* Arc<BackendDevice>: the reader's and, for open(), the writer's.
NewStrong(k) == IF k = "open" THEN 2 ELSE 1

\* The native open settles. Success: the BackendDevice and the reader (and
\* writer) are built. Failure: the error is returned and the receiver dropped.
OpenFinish(i, ok) ==
    /\ pc[i] = "opening"
    /\ inProgress' = FALSE
    /\ opened' = ok
    /\ IF ok
         THEN /\ pc' = [pc EXCEPT ![i] = "done"]
              /\ strong' = [strong EXCEPT ![i] = NewStrong(kind[i])]
              /\ readerAlive' = [readerAlive EXCEPT ![i] = TRUE]
              /\ writerAlive' = [writerAlive EXCEPT ![i] = (kind[i] = "open")]
              /\ UNCHANGED << chan, queue >>
         ELSE /\ pc' = [pc EXCEPT ![i] = "failed"]
              /\ chan' = [chan EXCEPT ![i] = "rxgone"]
              /\ queue' = [queue EXCEPT ![i] = <<>>]
              /\ UNCHANGED handleVars
    /\ UNCHANGED << oninputreport, nextId, kind, readVars, writeVars,
                    closesSinceOpen, teardownCloses, dropEnd, nProduced, seen >>
    /\ UNCHANGED enumVars

\* The native open was rejected at the call: the error is returned and the
\* receiver dropped.
OpenRejected(i) ==
    /\ pc[i] = "openRejected"
    /\ pc' = [pc EXCEPT ![i] = "failed"]
    /\ chan' = [chan EXCEPT ![i] = "rxgone"]
    /\ queue' = [queue EXCEPT ![i] = <<>>]
    /\ UNCHANGED << devVars, nextId, kind, handleVars, readVars, writeVars,
                    closesSinceOpen, teardownCloses, dropEnd, nProduced, seen >>
    /\ UNCHANGED enumVars

\* ------------------------------------------------------------------- drops
\* Mutant: the reader and the writer each own a BackendDevice of their own.
LastReferenceUnshared(i) == TRUE

\* Releasing one reference of Arc<BackendDevice> i: the BackendDevice is
\* dropped when it was the last one.
LastReference(i) == strong[i] = 1

\* pollster's block_on on the browser's one thread: a future that is ready at
\* its first poll gives its value; on a pending one block_on waits on a
\* condition variable, which that thread cannot do: the call panics.
block_on(firstPoll) == IF firstPoll = "ready" THEN "returned" ELSE "panicked"

\* The future of the drop at its first poll: ready when the cast fails; else
\* close() has been called and its promise is awaited, and a promise is never
\* settled within the turn that awaits it.
TeardownFuture(isHidDevice) == IF isHidDevice THEN "pending" ELSE "ready"

\* impl Drop for BackendDevice: the native close is called and block_on waits
\* for its promise; the result of the close would be discarded.
DropBackendDevice(i, run) ==
    IF run
      THEN /\ closesSinceOpen' = closesSinceOpen + 1
           /\ teardownCloses' = [teardownCloses EXCEPT ![i] = @ + 1]
           /\ dropEnd' = [dropEnd EXCEPT ![i] = block_on(TeardownFuture(TRUE))]
           /\ opened' = IF CloseAccepted THEN FALSE ELSE opened
      ELSE UNCHANGED << closesSinceOpen, teardownCloses, dropEnd, opened >>

\* Dropping DeviceReader i: impl Drop for BackendDeviceReader clears the
\* device's handler, then the fields go: the Arc reference and the receiver.
\* A read suspended on the reader is cancelled with it.
DropReader(i) ==
    /\ readerAlive[i]
    /\ readerAlive' = [readerAlive EXCEPT ![i] = FALSE]
    /\ oninputreport' = 0
    /\ strong' = [strong EXCEPT ![i] = @ - 1]
    /\ DropBackendDevice(i, LastReference(i))
    /\ chan' = [chan EXCEPT ![i] = "rxgone"]
    /\ queue' = [queue EXCEPT ![i] = <<>>]
    /\ rdPc' = [rdPc EXCEPT ![i] = "idle"]
    /\ rdBuf' = [rdBuf EXCEPT ![i] = <<>>]
    /\ UNCHANGED << inProgress, callVars, writerAlive, returned, overflowed,
                    last, writeVars, nProduced, seen >>
    /\ UNCHANGED enumVars

\* Dropping DeviceWriter i releases its Arc reference.
DropWriter(i) ==
    /\ writerAlive[i]
    /\ writerAlive' = [writerAlive EXCEPT ![i] = FALSE]
    /\ strong' = [strong EXCEPT ![i] = @ - 1]
    /\ DropBackendDevice(i, LastReference(i))
    /\ UNCHANGED << inProgress, oninputreport, callVars, readerAlive, chan,
                    queue, readVars, writeVars, nProduced, seen >>
    /\ UNCHANGED enumVars

\* ------------------------------------------------------------ input events
\* Mutant: the channel hands out the newest event first.
SendToFront(q, state, e) == IF state = "live" THEN <<e>> \o q ELSE q

\* The closure's tx.send(e): the event joins the channel unless the receiver
\* is gone, in which case the error is discarded.
Send(q, state, e) == IF state = "live" THEN Append(q, e) ELSE q

\* The open device produces an input report and the browser calls the
\* registered handler, if any.
DeviceEvent(e) ==
    /\ opened
    /\ nProduced < MaxEvents
    /\ nProduced' = nProduced + 1
    /\ IF oninputreport # 0
         THEN /\ seen' = [seen EXCEPT ![oninputreport] = Append(@, e)]
              /\ queue' = [queue EXCEPT ![oninputreport] =
                              Send(@, chan[oninputreport], e)]
         ELSE UNCHANGED << seen, queue >>
    /\ UNCHANGED << devVars, callVars, handleVars, chan, readVars, writeVars,
                    closesSinceOpen, teardownCloses, dropEnd >>
    /\ UNCHANGED enumVars

\* --------------------------------------------------------- read_input_report
RangeError == -1

\* DataView.getUint8(idx): the byte at idx counted from the view's start.
GetUint8(e, idx) ==
    IF idx >= 0 /\ idx < e.len THEN e.buffer[e.off + idx + 1] ELSE RangeError

\* Mutant: the copy loop stops one byte short of the payload.
ReadFrameShortCopy(e, buf) ==
    LET withId == [buf EXCEPT ![1] = e.id]
        count  == e.len
        copied == [k \in 1..Len(buf) |->
                     IF k = 1 THEN e.id
                     ELSE IF k - 1 < count THEN GetUint8(e, k - 2 + e.off)
                     ELSE buf[k]]
    IN  IF count = 0
          THEN [tag |-> "ok", n |-> 1, buf |-> withId]
        ELSE IF count > Len(buf) - 1
          THEN [tag |-> "overflow", n |-> 0, buf |-> withId]
        ELSE [tag |-> "ok", n |-> 1 + count, buf |-> copied]

\* Mutant: a payload too long for buf[1..] is cut to fit instead of refused.
ReadFrameTruncating(e, buf) ==
    LET withId == [buf EXCEPT ![1] = e.id]
        count  == IF e.len > Len(buf) - 1 THEN Len(buf) - 1 ELSE e.len
        copied == [k \in 1..Len(buf) |->
                     IF k = 1 THEN e.id
                     ELSE IF k - 1 <= count THEN GetUint8(e, k - 2 + e.off)
                     ELSE buf[k]]
    IN  IF count = 0
          THEN [tag |-> "ok", n |-> 1, buf |-> withId]
        ELSE [tag |-> "ok", n |-> 1 + count, buf |-> copied]

\* Mutant: a payload too long for buf[1..] is copied as far as it fits before
\* the overflow error is returned.
ReadFramePartialCopy(e, buf) ==
    LET withId == [buf EXCEPT ![1] = e.id]
        count  == e.len
        copied == [k \in 1..Len(buf) |->
                     IF k = 1 THEN e.id
                     ELSE IF k - 1 <= count THEN GetUint8(e, k - 2 + e.off)
                     ELSE buf[k]]
    IN  IF count = 0
          THEN [tag |-> "ok", n |-> 1, buf |-> withId]
        ELSE IF count > Len(buf) - 1
          THEN [tag |-> "overflow", n |-> 0, buf |-> copied]
        ELSE [tag |-> "ok", n |-> 1 + count, buf |-> copied]

\* The body of the Ok(e) arm: the id goes to buf[0], an empty payload returns
\* 1, a payload longer than buf[1..] is an overflow error, otherwise the
\* payload is copied byte by byte through get_uint8(index + report_offset).
ReadFrame(e, buf) ==
    LET withId == [buf EXCEPT ![1] = e.id]
        count  == e.len
        byteAt(index) == GetUint8(e, index + e.off)
        copied == [k \in 1..Len(buf) |->
                     IF k = 1 THEN e.id
                     ELSE IF k - 1 <= count THEN byteAt(k - 2)
                     ELSE buf[k]]
    IN  IF count = 0
          THEN [tag |-> "ok", n |-> 1, buf |-> withId]
        ELSE IF count > Len(buf) - 1
          THEN [tag |-> "overflow", n |-> 0, buf |-> withId]
        ELSE IF \E index \in 0..(count - 1) : byteAt(index) = RangeError
          THEN [tag |-> "threw", n |-> 0, buf |-> withId]
        ELSE [tag |-> "ok", n |-> 1 + count, buf |-> copied]

\* The sender of channel i was moved into the closure, and the closure was
\* leaked with forget(): once created the sender is never dropped.
SenderAlive(i) == chan[i] # "none"

\* Mutant: recv runs before the zero-size check.
ReadStepRecvFirst(q, buf, sender) ==
    IF q # <<>>
      THEN IF Len(buf) = 0
             THEN [tag |-> "zero", n |-> 0, buf |-> buf, q |-> Tail(q),
                   ev |-> NoEvent]
             ELSE LET f == ReadFrame(Head(q), buf)
                  IN  [tag |-> f.tag, n |-> f.n, buf |-> f.buf, q |-> Tail(q),
                       ev |-> Head(q)]
    ELSE IF ~sender
      THEN [tag |-> "closed", n |-> 0, buf |-> buf, q |-> q, ev |-> NoEvent]
    ELSE [tag |-> "pending", n |-> 0, buf |-> buf, q |-> q, ev |-> NoEvent]

\* Mutant: recv hands out the newest queued report instead of the oldest.
ReadStepTakesNewest(q, buf, sender) ==
    IF Len(buf) = 0
      THEN [tag |-> "zero", n |-> 0, buf |-> buf, q |-> q, ev |-> NoEvent]
    ELSE IF q # <<>>
      THEN LET f == ReadFrame(q[Len(q)], buf)
           IN  [tag |-> f.tag, n |-> f.n, buf |-> f.buf,
                q |-> SubSeq(q, 1, Len(q) - 1), ev |-> q[Len(q)]]
    ELSE IF ~sender
      THEN [tag |-> "closed", n |-> 0, buf |-> buf, q |-> q, ev |-> NoEvent]
    ELSE [tag |-> "pending", n |-> 0, buf |-> buf, q |-> q, ev |-> NoEvent]

\* read_input_report as a function of the channel and the buffer: the
\* zero-size check, then recv (an item, or closed when the queue is empty and
\* no sender is left, or pending), then the framing.
ReadStep(q, buf, sender) ==
    IF Len(buf) = 0
      THEN [tag |-> "zero", n |-> 0, buf |-> buf, q |-> q, ev |-> NoEvent]
    ELSE IF q # <<>>
      THEN LET f == ReadFrame(Head(q), buf)
           IN  [tag |-> f.tag, n |-> f.n, buf |-> f.buf, q |-> Tail(q),
                ev |-> Head(q)]
    ELSE IF ~sender
      THEN [tag |-> "closed", n |-> 0, buf |-> buf, q |-> q, ev |-> NoEvent]
    ELSE [tag |-> "pending", n |-> 0, buf |-> buf, q |-> q, ev |-> NoEvent]

\* A read call returns r to its caller.
ReadReturn(i, pre, r) ==
    /\ queue' = [queue EXCEPT ![i] = r.q]
    /\ last' = [reader |-> i, pre |-> pre, post |-> r.buf, ev |-> r.ev,
                tag |-> r.tag, n |-> r.n]
    /\ returned' = [returned EXCEPT ![i] =
                      IF r.tag = "ok" THEN Append(@, SubSeq(r.buf, 1, r.n)) ELSE @]
    /\ overflowed' = [overflowed EXCEPT ![i] = @ \/ r.tag \in {"overflow", "threw"}]
    /\ rdPc' = [rdPc EXCEPT ![i] = "idle"]
    /\ rdBuf' = [rdBuf EXCEPT ![i] = <<>>]

\* reader i's read_input_report(buf) up to its return or its suspension.
ReadCall(i, buf) ==
    /\ readerAlive[i]
    /\ rdPc[i] = "idle"
    /\ LET r == ReadStep(queue[i], buf, SenderAlive(i))
       IN  IF r.tag = "pending"
             THEN /\ rdPc' = [rdPc EXCEPT ![i] = "waiting"]
                  /\ rdBuf' = [rdBuf EXCEPT ![i] = buf]
                  /\ UNCHANGED << queue, last, returned, overflowed >>
             ELSE ReadReturn(i, buf, r)
    /\ UNCHANGED << devVars, callVars, handleVars, chan, writeVars,
                    closesSinceOpen, teardownCloses, dropEnd, nProduced, seen >>
    /\ UNCHANGED enumVars

\* A suspended read is woken: the channel has an item or has been closed.
ReadWake(i) ==
    /\ readerAlive[i]
    /\ rdPc[i] = "waiting"
    /\ LET r == ReadStep(queue[i], rdBuf[i], SenderAlive(i))
       IN  /\ r.tag # "pending"
           /\ ReadReturn(i, rdBuf[i], r)
    /\ UNCHANGED << devVars, callVars, handleVars, chan, writeVars,
                    closesSinceOpen, teardownCloses, dropEnd, nProduced, seen >>
    /\ UNCHANGED enumVars

\* -------------------------------------------------------- write_output_report
\* Mutant: the whole buffer, id byte included, is sent as the payload.
SendArgsWholeBuf(buf) == [id |-> buf[1], payload |-> buf]

\* The arguments of send_report_with_u8_slice: buf[0] and a copy of buf[1..].
SendArgs(buf) == [id |-> buf[1], payload |-> Tail(buf)]

\* writer i's write_output_report(buf): the zero-size check, then one
\* sendReport call whose outcome (the call throwing or its promise rejecting,
\* as it does on a closed device) is returned.
WriteCall(i, buf, ok) ==
    /\ writerAlive[i]
    /\ Len(sendLog) < MaxWrites
    /\ IF Len(buf) = 0
         THEN /\ lastWrite' = [writer |-> i, buf |-> buf, tag |-> "zero"]
              /\ sendLog' = sendLog
         ELSE /\ sendLog' = Append(sendLog, SendArgs(buf))
              /\ lastWrite' = [writer |-> i, buf |-> buf,
                               tag |-> IF ok /\ opened THEN "ok" ELSE "err"]
    /\ UNCHANGED << devVars, callVars, handleVars, chan, queue, readVars,
                    closesSinceOpen, teardownCloses, dropEnd, nProduced, seen >>
    /\ UNCHANGED enumVars

\* --------------------------------------------------------------- enumeration
\* Option::None of an optional u16, and `undefined` of an optional attribute.
None == -1

Collection(p, u) == [usagePage |-> p, usage |-> u]

HidDeviceObject(o, n, v, p, cs) ==
    [obj |-> o, productName |-> n, vendorId |-> v, productId |-> p,
     collections |-> cs]

\* The HidDevice objects the browser knows: two units of one product, a device
\* with two top-level collections, and between them one with no collection
\* and one whose first collection has no usage page.  obj is the identity of the JavaScript object;
\* the browser hands out the same object for the same device every time.
HidDevices ==
    { HidDeviceObject(1, "Pad", 1133, 50475, << Collection(1, 5) >>),
      HidDeviceObject(2, "Hub", 1133, 7, << >>),
      HidDeviceObject(3, "Keys", 2, 3, << Collection(1, 6), Collection(12, 1) >>),
      HidDeviceObject(4, "Raw", 5, 8, << Collection(None, 5) >>),
      HidDeviceObject(5, "Pad", 1133, 50475, << Collection(1, 5) >>) }

\* A DeviceCriteria.
Criteria(v, p, up, u) ==
    [vendor_id |-> v, product_id |-> p, usage_page |-> up, usage_id |-> u]

\* Criteria lists passed to enumerate_with_criteria.
CriteriaLists ==
    { << >>,
      << Criteria(1133, None, None, None) >>,
      << Criteria(1, None, None, None) >>,
      << Criteria(None, None, 12, None) >>,
      << Criteria(1133, 7, None, None), Criteria(None, None, 1, 6) >> }

\* The sets of devices the page may hold a grant for when the program starts.
InitialGrants ==
    { {}, { d \in HidDevices : d.obj = 1 }, { d \in HidDevices : d.obj \in {2, 3} } }

\* The elements of a set of device objects as the array the browser returns.
RECURSIVE AsArray(_)
AsArray(S) ==
    IF S = {} THEN << >>
    ELSE LET d == CHOOSE x \in S : \A y \in S : x.obj <= y.obj
         IN  << d >> \o AsArray(S \ {d})

\* The HidDeviceRequest built from one DeviceCriteria, and the filter array
\* built from a criteria list.
HidDeviceRequest(c) ==
    [vendorId |-> c.vendor_id, productId |-> c.product_id,
     usagePage |-> c.usage_page, usage |-> c.usage_id]

Filters(list) == [k \in 1..Len(list) |-> HidDeviceRequest(list[k])]

\* The browser's filter match: the ids, and some top-level collection with
\* the usage page and usage asked for.
FilterMatches(f, d) ==
    /\ f.vendorId \in {None, d.vendorId}
    /\ f.productId \in {None, d.productId}
    /\ \/ f.usagePage = None /\ f.usage = None
       \/ \E k \in 1..Len(d.collections) :
              /\ f.usagePage \in {None, d.collections[k].usagePage}
              /\ f.usage \in {None, d.collections[k].usage}

\* The devices the chooser of requestDevice offers: with no filter, as
\* enumerate() passes it, every device; else those matching some filter.
Offered(filters) ==
    IF Len(filters) = 0 THEN HidDevices
    ELSE { d \in HidDevices : \E k \in 1..Len(filters) : FilterMatches(filters[k], d) }

\* What the user may select in the chooser: none (dismissed) or some of the
\* offered device objects.
Selections(filters) ==
    { S \in SUBSET Offered(filters) : Cardinality(S) <= MaxChosen }

IsValidObject(d) == d.obj # 0

NoInfo ==
    [name |-> "", vendor_id |-> 0, product_id |-> 0, usage_page |-> 0,
     usage_id |-> 0, device_object |-> 0]

\* get_device_info: the checks in their order, then the record built from
\* the device's attributes and its first collection.
GetDeviceInfo(d) ==
    IF ~IsValidObject(d) THEN [ok |-> FALSE, info |-> NoInfo]
    ELSE IF Len(d.collections) = 0 THEN [ok |-> FALSE, info |-> NoInfo]
    ELSE IF d.collections[1].usagePage = None THEN [ok |-> FALSE, info |-> NoInfo]
    ELSE IF d.collections[1].usage = None THEN [ok |-> FALSE, info |-> NoInfo]
    ELSE [ok |-> TRUE,
          info |-> [name |-> d.productName,
                    vendor_id |-> d.vendorId,
                    product_id |-> d.productId,
                    usage_page |-> d.collections[1].usagePage,
                    usage_id |-> d.collections[1].usage,
                    device_object |-> d.obj]]

\* Mutant: the conversion stops at the first device whose metadata fails.
FilterMapUntilError(devs) ==
    LET bad == { k \in 1..Len(devs) : ~GetDeviceInfo(devs[k]).ok }
        n == IF bad = {} THEN Len(devs)
             ELSE (CHOOSE k \in bad : \A j \in bad : k <= j) - 1
    IN  [k \in 1..n |-> GetDeviceInfo(devs[k]).info]

\* .iter().filter_map(get_device_info ok).collect(): the records of the
\* devices whose metadata was retrieved, in the array's order.
FilterMap(devs) ==
    LET good == SelectSeq(devs, LAMBDA d : GetDeviceInfo(d).ok)
    IN  [k \in 1..Len(good) |-> GetDeviceInfo(good[k]).info]

\* --------------------------------------------------- equality and hashing
\* String(value) of a JavaScript object, which the hash of the token is taken
\* of: the same text for every HidDevice object.
to_string(v) == "[object HIDDevice]"

\* PartialEq of the token: JavaScript's strict equality of the two values.
HashableJsValueEq(a, b) == a = b

HashableJsValueHash(v) == to_string(v)

\* Mutant: the records are compared by their descriptive fields only.
DeviceInfoEqByFields(a, b) ==
    /\ a.name = b.name
    /\ a.vendor_id = b.vendor_id
    /\ a.product_id = b.product_id
    /\ a.usage_page = b.usage_page
    /\ a.usage_id = b.usage_id

\* The derived PartialEq of DeviceInfo: every field in turn.
DeviceInfoEq(a, b) ==
    /\ a.name = b.name
    /\ a.vendor_id = b.vendor_id
    /\ a.product_id = b.product_id
    /\ a.usage_page = b.usage_page
    /\ a.usage_id = b.usage_id
    /\ HashableJsValueEq(a.device_object, b.device_object)

\* The derived Hash of DeviceInfo: what each field feeds to the hasher.
DeviceInfoHash(a) ==
    << a.name, a.vendor_id, a.product_id, a.usage_page, a.usage_id,
       HashableJsValueHash(a.device_object) >>

\* Vec::contains.
Contains(s, x) == \E k \in 1..Len(s) : DeviceInfoEq(s[k], x)

\* Mutant: every existing device is pushed, found already or not.
MergeAppendAll(found, existing) == found \o existing

\* The loop that pushes each existing device not yet among the found ones.
RECURSIVE Merge(_, _)
Merge(found, existing) ==
    IF Len(existing) = 0 THEN found
    ELSE Merge(IF Contains(found, Head(existing)) THEN found
               ELSE Append(found, Head(existing)),
               Tail(existing))

\* ------------------------------------------------------------- the stream
\* Mutant: next() hands out the front element without consuming it.
IterNextPeek(it) ==
    IF Len(it) = 0 THEN [some |-> FALSE, item |-> NoInfo, rest |-> it]
    ELSE [some |-> TRUE, item |-> Head(it), rest |-> it]

\* next() of the vector's iterator: the front element, if any, and the rest.
IterNext(it) ==
    IF Len(it) = 0 THEN [some |-> FALSE, item |-> NoInfo, rest |-> it]
    ELSE [some |-> TRUE, item |-> Head(it), rest |-> Tail(it)]

\* Iter::poll_next: Poll::Ready(self.iter.next()).
PollNext ==
    /\ enPc = "ready"
    /\ Len(yielded) < MaxYield
    /\ LET r == IterNext(stream)
       IN  /\ stream' = r.rest
           /\ yielded' = IF r.some THEN Append(yielded, r.item) ELSE yielded
           /\ lastPoll' = IF r.some THEN "item" ELSE "end"
    /\ UNCHANGED << backend, granted, nEnums, enPc, enKind, enCriteria,
                    enReported, enFound, enItems, lastOp >>
    /\ UNCHANGED deviceVars

\* ---------------------------------------------------- the enumeration calls
\* utils::iter(items) returned as the call's Ok value.
Ready(items) ==
    /\ enPc' = "ready"
    /\ enItems' = items
    /\ stream' = items
    /\ yielded' = << >>
    /\ lastPoll' = "none"

\* The call returns Err.
Failed ==
    /\ enPc' = "failed"
    /\ enItems' = << >>
    /\ stream' = << >>
    /\ yielded' = << >>
    /\ lastPoll' = "none"

\* enumerate() (list is empty) or enumerate_with_criteria(list) up to the
\* await on requestDevice; api tells whether get_web_hid_api succeeds.
EnumStart(k, list, api) ==
    /\ backend = "webhid"
    /\ enPc \in {"idle", "ready", "failed"}
    /\ nEnums < MaxEnums
    /\ k = "enumerate" => list = << >>
    /\ nEnums' = nEnums + 1
    /\ enKind' = k
    /\ enCriteria' = list
    /\ enReported' = << >>
    /\ enFound' = << >>
    /\ IF api
         THEN /\ enPc' = "requesting"
              /\ enItems' = << >>
              /\ stream' = << >>
              /\ yielded' = << >>
              /\ lastPoll' = "none"
              /\ lastOp' = lastOp
         ELSE /\ Failed
              /\ lastOp' = [op |-> k, outcome |-> "err"]
    /\ UNCHANGED << backend, granted >>
    /\ UNCHANGED deviceVars

\* The requestDevice promise settles: rejected, or fulfilled with the array
\* of the devices the user selected, which are granted from then on.
\* enumerate_with_criteria returns the stream of their records; enumerate
\* keeps them and awaits getDevices.
RequestSettle(sel, ok) ==
    /\ enPc = "requesting"
    /\ sel \in Selections(Filters(enCriteria))
    /\ IF ~ok
         THEN /\ Failed
              /\ lastOp' = [op |-> enKind, outcome |-> "err"]
              /\ UNCHANGED << granted, enReported, enFound >>
         ELSE /\ granted' = granted \cup sel
              /\ enReported' = AsArray(sel)
              /\ IF enKind = "criteria"
                   THEN /\ Ready(FilterMap(AsArray(sel)))
                        /\ enFound' = enFound
                        /\ lastOp' = [op |-> enKind, outcome |-> "ok"]
                   ELSE /\ enPc' = "listing"
                        /\ enFound' = FilterMap(AsArray(sel))
                        /\ UNCHANGED << enItems, stream, yielded, lastPoll, lastOp >>
    /\ UNCHANGED << backend, nEnums, enKind, enCriteria >>
    /\ UNCHANGED deviceVars

\* The getDevices promise settles: rejected, or fulfilled with the array of
\* the granted devices, whose records are merged into the found ones.
GetDevicesSettle(ok) ==
    /\ enPc = "listing"
    /\ IF ~ok
         THEN /\ Failed
              /\ lastOp' = [op |-> enKind, outcome |-> "err"]
              /\ UNCHANGED enReported
         ELSE /\ enReported' = enReported \o AsArray(granted)
              /\ Ready(Merge(enFound, FilterMap(AsArray(granted))))
              /\ lastOp' = [op |-> enKind, outcome |-> "ok"]
    /\ UNCHANGED << backend, granted, nEnums, enKind, enCriteria, enFound >>
    /\ UNCHANGED deviceVars

\* ------------------------------------------------------ the android backend
\* enumerate() of the android backend: an error of the JNI calls, or the
\* stream of an empty vector.
AndroidEnumerate(ok) ==
    /\ backend = "android"
    /\ enPc \in {"idle", "ready", "failed"}
    /\ nEnums < MaxEnums
    /\ nEnums' = nEnums + 1
    /\ enKind' = "enumerate"
    /\ IF ok THEN Ready(<< >>) ELSE Failed
    /\ lastOp' = [op |-> "enumerate", outcome |-> IF ok THEN "ok" ELSE "err"]
    /\ UNCHANGED << backend, granted, enCriteria, enReported, enFound >>
    /\ UNCHANGED deviceVars

AndroidStubs == {"open_readonly", "open", "read_input_report", "write_output_report"}

\* The other operations of the android backend: each body is todo!().
AndroidTodo(op) ==
    /\ backend = "android"
    /\ op \in AndroidStubs
    /\ lastOp' = [op |-> op, outcome |-> "panic"]
    /\ UNCHANGED << backend, granted, nEnums, enPc, enKind, enCriteria,
                    enReported, enFound, enItems, stream, yielded, lastPoll >>
    /\ UNCHANGED deviceVars

\* ----------------------------------------------------------- specifications
\* The device's lifecycle and its input path.
Lifecycle ==
    \/ \E k \in {"open", "open_readonly"} : OpenStart(k, MaxOpens)
    \/ \E i \in Ids : CloseResume(i)
    \/ \E i \in Ids, ok \in BOOLEAN : OpenFinish(i, ok)
    \/ \E i \in Ids : OpenRejected(i)
    \/ \E i \in Ids : DropReader(i)
    \/ \E i \in Ids : DropWriter(i)
    \/ \E e \in Reports : DeviceEvent(e)

Next == Lifecycle

Spec == Init /\ [][Next]_vars

\* The lifecycle together with the readers' read_input_report calls.
ReadNext ==
    \/ Lifecycle
    \/ \E i \in Ids, buf \in LifeBufs : ReadCall(i, buf)
    \/ \E i \in Ids : ReadWake(i)

ReadSpec == Init /\ [][ReadNext]_vars

\* The executor resumes a task whose promise has settled or whose channel has
\* woken it; callers and the device are free to do nothing.
FairReadSpec ==
    /\ ReadSpec
    /\ \A i \in Ids : /\ WF_vars(ReadWake(i))
                      /\ WF_vars(CloseResume(i))
                      /\ WF_vars(OpenRejected(i))
                      /\ WF_vars(\E ok \in BOOLEAN : OpenFinish(i, ok))

\* Report I/O on the reader and writer of one successful open(): the state
\* after OpenStart("open") and OpenFinish(1, TRUE).
IoInit ==
    /\ opened = TRUE
    /\ inProgress = FALSE
    /\ oninputreport = 1
    /\ nextId = 2
    /\ pc = [i \in Ids |-> IF i = 1 THEN "done" ELSE "unused"]
    /\ kind = [i \in Ids |-> "open"]
    /\ strong = [i \in Ids |-> IF i = 1 THEN 2 ELSE 0]
    /\ readerAlive = [i \in Ids |-> i = 1]
    /\ writerAlive = [i \in Ids |-> i = 1]
    /\ chan = [i \in Ids |-> IF i = 1 THEN "live" ELSE "none"]
    /\ queue = [i \in Ids |-> <<>>]
    /\ rdPc = [i \in Ids |-> "idle"]
    /\ rdBuf = [i \in Ids |-> <<>>]
    /\ closesSinceOpen = 0
    /\ teardownCloses = [i \in Ids |-> 0]
    /\ dropEnd = [i \in Ids |-> "none"]
    /\ nProduced = 0
    /\ seen = [i \in Ids |-> <<>>]
    /\ returned = [i \in Ids |-> <<>>]
    /\ overflowed = [i \in Ids |-> FALSE]
    /\ last = NoRead
    /\ sendLog = <<>>
    /\ lastWrite = NoWrite
    /\ EnumIdle

IoNext ==
    \/ \E e \in Reports : DeviceEvent(e)
    \/ \E buf \in IoBufs : ReadCall(1, buf)
    \/ ReadWake(1)
    \/ \E buf \in IoBufs, ok \in BOOLEAN : WriteCall(1, buf, ok)

IoSpec == IoInit /\ [][IoNext]_vars

\* Up to MaxRaceOpens open calls interleaving at their suspension points, and
\* the drops of the handles they return, on a device that sends no report.
RaceNext ==
    \/ \E k \in {"open", "open_readonly"} : OpenStart(k, MaxRaceOpens)
    \/ \E i \in Ids : CloseResume(i)
    \/ \E i \in Ids, ok \in BOOLEAN : OpenFinish(i, ok)
    \/ \E i \in Ids : OpenRejected(i)
    \/ \E i \in Ids : DropReader(i)
    \/ \E i \in Ids : DropWriter(i)

RaceSpec == Init /\ [][RaceNext]_vars

\* Enumeration on the backend compiled in, and the polls of the stream it
\* returns; the device itself is left alone.
EnumInit ==
    /\ DeviceInit
    /\ backend \in {"webhid", "android"}
    /\ granted \in InitialGrants
    /\ EnumAtRest

EnumNext ==
    \/ \E k \in {"enumerate", "criteria"}, list \in CriteriaLists, api \in BOOLEAN :
           EnumStart(k, list, api)
    \/ \E sel \in SUBSET HidDevices, ok \in BOOLEAN : RequestSettle(sel, ok)
    \/ \E ok \in BOOLEAN : GetDevicesSettle(ok)
    \/ PollNext
    \/ \E ok \in BOOLEAN : AndroidEnumerate(ok)
    \/ \E op \in AndroidStubs : AndroidTodo(op)

EnumSpec == EnumInit /\ [][EnumNext]_vars

\* ------------------------------------------------------------------ claims
LiveHandles == { i \in Ids : strong[i] > 0 }
LiveReaders == { i \in Ids : readerAlive[i] }

\* The frame [report id, payload...] a report is delivered as.
FrameOf(e) == <<e.id>> \o Payload(e)
Frames(q) == [k \in 1..Len(q) |-> FrameOf(q[k])]

\* C1: for the reader and writer of one successful open(), their teardown has
\* issued no native close while either of the two is alive, and exactly one
\* once both are dropped, whichever was dropped first.
C1_TeardownClosesOnce ==
    \A i \in Ids :
        (pc[i] = "done" /\ kind[i] = "open") =>
            teardownCloses[i] =
                IF readerAlive[i] \/ writerAlive[i] THEN 0 ELSE 1

C1_Witness ==
    \E i \in Ids :
        /\ pc[i] = "done" /\ kind[i] = "open"
        /\ ~readerAlive[i] /\ ~writerAlive[i]
        /\ teardownCloses[i] = 1

\* C2: there are never two live backend handles for the device, each of which
\* issues its own native close when dropped.
C2_SingleLiveHandle == Cardinality(LiveHandles) <= 1

\* C3: between one native open call and the next, at most one native close
\* call is issued on the device.
C3_OneClosePerOpen == closesSinceOpen <= 1

\* C4: a read that is suspended on a reader whose device is closed or whose
\* callback is detached, with nothing queued, completes with the
\* channel-closed error (unless the caller drops the reader).
TornDown(i) == ~opened \/ oninputreport # i

C4_TornDownReadCompletes ==
    \A i \in Ids :
        (readerAlive[i] /\ rdPc[i] = "waiting" /\ queue[i] = <<>> /\ TornDown(i))
            ~> ((last.reader = i /\ last.tag = "closed") \/ ~readerAlive[i])

\* C5: while two or more readers are alive, every input event the device
\* produces is appended to the queue of each of them.
C5_FanOut ==
    [][ (nProduced' = nProduced + 1 /\ Cardinality(LiveReaders) >= 2) =>
            \A r \in LiveReaders : Len(queue'[r]) = Len(queue[r]) + 1 ]_vars

\* C6: for a reader none of whose reads overflowed, the frames its successful
\* reads returned, followed by the frames still queued, are the events
\* produced while its callback was registered, in order, each once.
C6_Fifo ==
    \A i \in Ids :
        (readerAlive[i] /\ ~overflowed[i]) =>
            returned[i] \o Frames(queue[i]) = Frames(seen[i])

C6_Witness ==
    \E i \in Ids :
        /\ readerAlive[i] /\ ~overflowed[i]
        /\ Len(returned[i]) = 2
        /\ returned[i][1] # returned[i][2]
        /\ Len(seen[i]) = 2

\* C7: a read_input_report call with a zero-length buffer fails with the
\* zero-size error, does not suspend and leaves every queue and the device
\* as they were.
C7_ZeroBufferRead ==
    [][ \A i \in Ids :
            ReadCall(i, Buf(0)) =>
                /\ last'.reader = i /\ last'.tag = "zero"
                /\ rdPc'[i] = "idle"
                /\ queue' = queue
                /\ UNCHANGED << devVars, sendLog >> ]_vars

C7_Witness ==
    /\ last.reader # 0
    /\ last.tag = "zero"
    /\ queue[last.reader] # <<>>

\* C8: a successful read of a report with id r and payload p into a buffer of
\* n bytes returns 1 + len(p), leaves r in buffer[0], p in order in
\* buffer[1..1+len(p)] and the remaining bytes as they were.
C8_ReadFraming ==
    last.tag = "ok" =>
        LET p == Payload(last.ev)
            n == Len(last.pre)
        IN  /\ last.n = 1 + Len(p)
            /\ Len(last.post) = n
            /\ last.n <= n
            /\ last.post[1] = last.ev.id
            /\ \A k \in 1..Len(p) : last.post[1 + k] = p[k]
            /\ \A k \in (2 + Len(p))..n : last.post[k] = last.pre[k]

C8_Witness ==
    /\ last.tag = "ok"
    /\ last.ev.id = 7
    /\ last.pre = Buf(4)
    /\ last.n = 3
    /\ last.post = <<7, 9, 8, 104>>

\* C9: a read into a non-empty buffer of n bytes that dequeues a report fails
\* with the overflow error when the payload is longer than n - 1, and succeeds
\* exactly when 1 + payload length <= n.
C9_OverflowIsError ==
    (last.ev # NoEvent /\ Len(last.pre) > 0) =>
        LET p == Payload(last.ev)
            n == Len(last.pre)
        IN  /\ (Len(p) > n - 1) => last.tag = "overflow"
            /\ (last.tag = "ok") <=> (1 + Len(p) <= n)

C9_Witness ==
    /\ last.tag = "overflow"
    /\ Len(last.pre) > 0
    /\ Len(Payload(last.ev)) = Len(last.pre)

\* C10: write_output_report with an empty buffer fails with the zero-size
\* error and makes no platform call; with a non-empty buffer it makes exactly
\* one sendReport call, with report id buffer[0] and payload buffer[1..].
C10_WriteFraming ==
    [][ \A i \in Ids, buf \in IoBufs, ok \in BOOLEAN :
            WriteCall(i, buf, ok) =>
                IF Len(buf) = 0
                  THEN /\ lastWrite'.tag = "zero"
                       /\ sendLog' = sendLog
                  ELSE /\ lastWrite'.tag # "zero"
                       /\ sendLog' = Append(sendLog,
                              [id |-> buf[1],
                               payload |-> SubSeq(buf, 2, Len(buf))]) ]_vars

C10_Witness ==
    /\ lastWrite.buf = Buf(1)
    /\ lastWrite.tag = "ok"
    /\ sendLog = << [id |-> 101, payload |-> <<>>] >>


\* A record matches a DeviceCriteria when every field the criteria gives
\* equals the record's field; a field left out matches anything.
Matches(c, r) ==
    /\ c.vendor_id \in {None, r.vendor_id}
    /\ c.product_id \in {None, r.product_id}
    /\ c.usage_page \in {None, r.usage_page}
    /\ c.usage_id \in {None, r.usage_id}

MatchesAny(list, r) == \E k \in 1..Len(list) : Matches(list[k], r)

\* The records of the devices the platform reported to the call.
ReportedInfos ==
    { GetDeviceInfo(enReported[k]).info :
        k \in { j \in 1..Len(enReported) : GetDeviceInfo(enReported[j]).ok } }

\* C11: when enumerate_with_criteria(list) has returned its stream, a device
\* the platform reported is in the stream iff its record matches at least one
\* element of list; with the empty list the stream holds no device.
C11_CriteriaFilter ==
    (enPc = "ready" /\ enKind = "criteria") =>
        /\ \A r \in ReportedInfos :
               Contains(enItems, r) <=> MatchesAny(enCriteria, r)
        /\ (Len(enCriteria) = 0 => Len(enItems) = 0)
\* The records of a sequence, as a set.
Range(s) == { s[k] : k \in 1..Len(s) }

\* C12: on the WebHID backend a stream that enumerate() or
\* enumerate_with_criteria() returned holds exactly the records of the
\* reported devices whose metadata could be retrieved, and
\* enumerate_with_criteria() returns its stream whenever the platform has
\* reported devices to it, whatever the devices are.
C12_BadDevicesSkipped ==
    /\ (backend = "webhid" /\ enPc = "ready") => Range(enItems) = ReportedInfos
    /\ (enKind = "criteria" /\ Len(enReported) > 0) => enPc = "ready"

\* A device without metadata was reported ahead of a device with metadata,
\* and the stream has yielded the latter.
C12_Witness ==
    /\ enPc = "ready"
    /\ \E j, k \in 1..Len(enReported) :
           /\ j < k
           /\ ~GetDeviceInfo(enReported[j]).ok
           /\ GetDeviceInfo(enReported[k]).ok
           /\ Contains(yielded, GetDeviceInfo(enReported[k]).info)
\* The records the call holds: those of the reported devices, those found by
\* the request and those handed to the stream.
HeldInfos == ReportedInfos \cup Range(enFound) \cup Range(enItems)

\* C13: any two records the program holds are equal iff their device_object
\* tokens are the same JavaScript object, and equal records have equal hashes.
C13_TokenEquality ==
    \A a, b \in HeldInfos :
        /\ DeviceInfoEq(a, b) <=> a.device_object = b.device_object
        /\ DeviceInfoEq(a, b) => DeviceInfoHash(a) = DeviceInfoHash(b)

\* enumerate() has returned; one device was reported by both of its listings,
\* and two devices with the same name, ids and usage are in the stream.
C13_Witness ==
    /\ enPc = "ready"
    /\ \E j, k \in 1..Len(enReported) :
           j # k /\ GetDeviceInfo(enReported[j]).ok /\ enReported[j] = enReported[k]
    /\ \E a, b \in Range(enItems) :
           a.device_object # b.device_object /\ DeviceInfoEqByFields(a, b)
\* C14: no call of a public operation, on either backend, ends in a panic:
\* each ends with a success value or an error.
C14_NoPanic == lastOp.outcome \in {"none", "ok", "err"}
\* C15: whenever the teardown of a BackendDevice issues the native close, no
\* oninputreport handler is registered on the device at that moment.
C15_DetachedBeforeClose ==
    [][\A i \in Ids :
          teardownCloses'[i] > teardownCloses[i] => oninputreport' = 0]_vars
\* Call i issues its native open in this step.
IssuesNativeOpen(i) ==
    /\ pc[i] \notin {"opening", "openRejected"}
    /\ pc'[i] \in {"opening", "openRejected"}

\* C16: an open call issues its native open only on a device that is not
\* open at that moment, however the calls interleave.
C16_OpenOnlyWhenClosed ==
    [][\A i \in Ids : IssuesNativeOpen(i) => ~opened]_vars
\* Reader i is dropped in this step.
ReaderDropped(i) == readerAlive[i] /\ ~readerAlive'[i]

\* C17: the drop of one reader leaves the registration of every other live
\* reader's callback in place, and no event enters the queue of a reader once
\* it has been dropped.
C17_ReaderDropFrame ==
    [][\A i \in Ids :
          /\ ReaderDropped(i) =>
                 \A j \in Ids \ {i} :
                     (readerAlive[j] /\ oninputreport = j) => oninputreport' = j
          /\ (pc[i] = "done" /\ ~readerAlive[i]) =>
                 Len(queue'[i]) <= Len(queue[i])]_vars
\* A read of reader i returns in this step.
ReadReturns(i) == last' # last /\ last'.reader = i

\* C18: a read with a non-empty buffer suspends only on an empty queue and
\* otherwise returns at once, taking the oldest queued report; a suspended
\* read returns only when its queue holds a report; and a suspended read
\* whose queue has received a report eventually returns.
C18_ReadCompletion ==
    /\ [][\A i \in Ids :
             /\ (rdPc[i] = "idle" /\ rdPc'[i] = "waiting") =>
                    queue[i] = << >> /\ queue'[i] = << >>
             /\ (ReadReturns(i) /\ Len(last'.pre) > 0) =>
                    /\ queue[i] # << >>
                    /\ last'.ev = Head(queue[i])
                    /\ queue'[i] = Tail(queue[i])]_vars
    /\ \A i \in Ids :
           (readerAlive[i] /\ rdPc[i] = "waiting" /\ queue[i] # << >>)
               ~> (rdPc[i] = "idle" \/ ~readerAlive[i])

\* A read is suspended and the device has produced a report that the
\* reader's closure has put into its queue.
C18_Witness ==
    \E i \in Ids :
        /\ readerAlive[i]
        /\ rdPc[i] = "waiting"
        /\ Len(rdBuf[i]) > 0
        /\ queue[i] # << >>
        /\ Len(seen[i]) > 0
\* The stream is polled in this step.
Polled ==
    /\ enPc = "ready" /\ enPc' = "ready"
    /\ nEnums' = nEnums /\ lastOp' = lastOp
    /\ << stream, yielded, lastPoll >>' # << stream, yielded, lastPoll >>

\* C19: what the stream has yielded, followed by what it still holds, is the
\* sequence it was built from; a poll yields the next element of it, and a
\* poll of the exhausted stream returns end-of-stream and changes nothing.
C19_StreamOrder ==
    /\ [](enPc = "ready" =>
             /\ yielded \o stream = enItems
             /\ lastPoll = "end" => yielded = enItems)
    /\ [][Polled =>
             IF Len(stream) = 0
               THEN lastPoll' = "end" /\ stream' = stream /\ yielded' = yielded
               ELSE /\ lastPoll' = "item"
                    /\ yielded' = Append(yielded, Head(stream))
                    /\ stream' = Tail(stream)]_vars

\* A stream of several devices has been polled to its end.
C19_Witness ==
    /\ enPc = "ready"
    /\ lastPoll = "end"
    /\ Len(enItems) >= 3
    /\ yielded = enItems
\* C20: a read that failed with the overflow error has left every byte of the
\* caller's buffer, buffer[0] included, as it was before the call.
C20_OverflowLeavesBuffer == last.tag = "overflow" => last.post = last.pre

\* C20, amended: a read that failed with the overflow error has written the
\* report id into buffer[0] and has left every other byte of the buffer as it
\* was before the call.
C20_OverflowWritesIdOnly ==
    last.tag = "overflow" =>
        /\ Len(last.post) = Len(last.pre)
        /\ last.post[1] = last.ev.id
        /\ \A k \in 2..Len(last.pre) : last.post[k] = last.pre[k]

\* A read into a buffer of several bytes has failed with the overflow error
\* and buffer[0] no longer holds the caller's byte.
C20_Witness ==
    /\ last.tag = "overflow"
    /\ Len(last.pre) >= 2
    /\ last.post[1] # last.pre[1]
\* C21: every drop of the last reference to a BackendDevice has returned to
\* its caller: none has ended in a panic.
C21_TeardownReturns == \A i \in Ids : dropEnd[i] \in {"none", "returned"}
\* C22: an open call that has returned an error has left no reader, no writer
\* and no BackendDevice behind, and the callback it installed is not
\* registered on the device.
C22_FailedOpenLeavesNothing ==
    \A i \in Ids :
        pc[i] = "failed" =>
            /\ strong[i] = 0
            /\ ~readerAlive[i]
            /\ ~writerAlive[i]
            /\ oninputreport # i
\* C23: the stream enumerate() has returned holds no two equal records, and
\* it holds the record of every device either listing reported whose metadata
\* could be retrieved.
C23_NoDuplicates ==
    (backend = "webhid" /\ enKind = "enumerate" /\ enPc = "ready") =>
        /\ \A j, k \in 1..Len(enItems) :
               DeviceInfoEq(enItems[j], enItems[k]) => j = k
        /\ \A r \in ReportedInfos : Contains(enItems, r)

\* enumerate() has returned a stream that was polled to its end; a device
\* with metadata was reported by the request and again by getDevices.
C23_Witness ==
    /\ backend = "webhid" /\ enKind = "enumerate" /\ enPc = "ready"
    /\ lastPoll = "end"
    /\ \E j \in 1..Len(enFound), k \in 1..Len(enReported) :
           /\ k > Len(enFound)
           /\ GetDeviceInfo(enReported[k]).ok
           /\ DeviceInfoEq(enFound[j], GetDeviceInfo(enReported[k]).info)
           /\ Contains(yielded, enFound[j])
====
